---- MODULE Spec2Model ----
(***************************************************************************)
(* subtensor-sim (tools/subtensor-sim/src/main.rs): the simulation driver. *)
(* main validates the horizon flags, Simulator::new opens the output file  *)
(* behind a BufWriter, Simulator::run resolves the start hash and the      *)
(* horizon and then loops: shutdown check, step_block (header, build,      *)
(* import, query, write_metrics), progress check; a final flush ends a run *)
(* that was not aborted by an error.                                       *)
(***************************************************************************)
EXTENDS Integers, Sequences, FiniteSets, TLC

(***************************************************************************)
(* Bounds of the model.                                                    *)
(***************************************************************************)
\* the run loop is explored for at most this many iterations
MaxIter == 3
\* --flush-every is drawn from 0..MaxEvery
MaxEvery == 3
\* --progress-every is drawn from 0..MaxProgressEvery
MaxProgressEvery == 1
\* a serialized record body takes 1 (short) or MaxBodyLen (long) buffer units
MaxBodyLen == 4
\* capacity of the BufWriter in the same units (std: 8 KiB of bytes)
BufCap == 4

(***************************************************************************)
(* u64 values: four 16-bit limbs, least significant first, so that the     *)
(* whole 64-bit range and its wrap-around are computed exactly.            *)
(***************************************************************************)
LimbBase == 65536
BlocksPerDay == 7200

U64(n) == <<n % LimbBase, (n \div LimbBase) % LimbBase, 0, 0>>
U64Max == <<LimbBase - 1, LimbBase - 1, LimbBase - 1, LimbBase - 1>>

\* x * m + a for a u64 x and small m, a: the low 64 bits and the carry out
MulAdd(x, m, a) ==
    LET t1 == x[1] * m + a
        t2 == x[2] * m + (t1 \div LimbBase)
        t3 == x[3] * m + (t2 \div LimbBase)
        t4 == x[4] * m + (t3 \div LimbBase)
    IN  [lo    |-> <<t1 % LimbBase, t2 % LimbBase, t3 % LimbBase, t4 % LimbBase>>,
         carry |-> t4 \div LimbBase]

\* a small integer i compared with a u64: i < x
LessThanU64(i, x) ==
    \/ x[3] # 0
    \/ x[4] # 0
    \/ i < x[1] + LimbBase * x[2]

\* the value of a u64 that fits the model's integers, else -1
SmallValue(x) ==
    IF x[3] = 0 /\ x[4] = 0 /\ x[2] < 16384 THEN x[1] + LimbBase * x[2] ELSE 0 - 1

(***************************************************************************)
(* Options and results.                                                    *)
(***************************************************************************)
None == [some |-> FALSE, val |-> <<>>]
Some(v) == [some |-> TRUE, val |-> v]
Ok(v) == [ok |-> TRUE, val |-> v, err |-> "none"]
Err(kind) == [ok |-> FALSE, val |-> <<>>, err |-> kind]

(***************************************************************************)
(* Text: a string is a sequence of one-character strings.                  *)
(***************************************************************************)
LowerHex == <<"0", "1", "2", "3", "4", "5", "6", "7", "8", "9",
              "a", "b", "c", "d", "e", "f">>
UpperHex == <<"0", "1", "2", "3", "4", "5", "6", "7", "8", "9",
              "A", "B", "C", "D", "E", "F">>

\* value of a hex digit of either case, -1 for any other character
HexVal(c) ==
    IF \E k \in 1..16 : LowerHex[k] = c
    THEN (CHOOSE k \in 1..16 : LowerHex[k] = c) - 1
    ELSE IF \E k \in 1..16 : UpperHex[k] = c
         THEN (CHOOSE k \in 1..16 : UpperHex[k] = c) - 1
         ELSE 0 - 1

\* hex::decode: odd length and non-hex characters are errors
HexDecode(s) ==
    IF Len(s) % 2 # 0 THEN Err("resolution")
    ELSE IF \E k \in 1..Len(s) : HexVal(s[k]) < 0 THEN Err("resolution")
    ELSE Ok([k \in 1..(Len(s) \div 2) |->
                16 * HexVal(s[2 * k - 1]) + HexVal(s[2 * k])])

\* value of a decimal digit, -1 for any other character
DigitVal(c) ==
    IF \E k \in 1..10 : LowerHex[k] = c
    THEN (CHOOSE k \in 1..10 : LowerHex[k] = c) - 1
    ELSE 0 - 1

RECURSIVE ParseDigits(_, _)
\* acc * 10 + digit over the remaining characters, failing on overflow
ParseDigits(s, acc) ==
    IF s = <<>> THEN Ok(acc)
    ELSE IF DigitVal(Head(s)) < 0 THEN Err("resolution")
    ELSE LET r == MulAdd(acc, 10, DigitVal(Head(s)))
         IN  IF r.carry # 0 THEN Err("resolution")
             ELSE ParseDigits(Tail(s), r.lo)

\* str::parse::<u64>: an optional leading "+", then at least one digit
ParseU64(s) ==
    LET digits == IF s # <<>> /\ Head(s) = "+" THEN Tail(s) ELSE s
    IN  IF digits = <<>> THEN Err("resolution") ELSE ParseDigits(digits, U64(0))

StartsWith0x(s) == Len(s) >= 2 /\ s[1] = "0" /\ s[2] = "x"

(***************************************************************************)
(* Hashes are 32 bytes.  H(n) is the hash whose bytes all equal n.         *)
(***************************************************************************)
HashLen == 32
H(n) == [k \in 1..HashLen |-> n]

(***************************************************************************)
(* The chain client: a set of imported blocks.  At start the chain holds   *)
(* the genesis block and one block on it, which is the best block.         *)
(***************************************************************************)
GenesisBlock == [hash |-> H(0), parent |-> H(0), number |-> 0, extrinsics |-> <<>>]
TipBlock == [hash |-> H(1), parent |-> H(0), number |-> 1, extrinsics |-> <<>>]
InitChain == {GenesisBlock, TipBlock}
NoBlock == [hash |-> H(255), parent |-> H(255), number |-> 0, extrinsics |-> <<>>]

\* faulty variant: client.info().genesis_hash, the lowest block
BestHashGenesis(c) ==
    (CHOOSE b \in c : \A o \in c : b.number <= o.number).hash

\* client.info().best_hash
BestHash(c) ==
    (CHOOSE b \in c : \A o \in c : o.number <= b.number).hash

\* client.hash(number): the hash at that height, if any
ClientHash(c, n) ==
    IF \E b \in c : b.number = SmallValue(n)
    THEN Some((CHOOSE b \in c : b.number = SmallValue(n)).hash)
    ELSE None

\* client.header(hash): the block with that hash, if any
ClientHeader(c, h) ==
    IF \E b \in c : b.hash = h
    THEN Some(CHOOSE b \in c : b.hash = h)
    ELSE None

\* the hash of the k-th block built by the run: distinct from every other
NewHash(k) == H(15 + k)

\* inherent_data.create_extrinsics(): what the inherent data yields
InherentExtrinsics == <<[kind |-> "inherent"]>>
\* the user transactions waiting in the node's pool
PoolExtrinsics == <<[kind |-> "user"]>>

\* faulty variant: with the flag off the builder also takes the pool
NewBlockAtFromPool(header, k, inherent_only) ==
    [hash |-> NewHash(k), parent |-> header.hash, number |-> header.number + 1,
     extrinsics |-> IF inherent_only THEN InherentExtrinsics
                    ELSE InherentExtrinsics \o PoolExtrinsics]

\* client.new_block_at(parent_hash, ..), the pushes of the inherent
\* extrinsics and build(): one above the parent.  inherent_only is
\* Cli::feature_inherent_only, which step_block does not read
NewBlockAt(header, k, inherent_only) ==
    [hash |-> NewHash(k), parent |-> header.hash, number |-> header.number + 1,
     extrinsics |-> InherentExtrinsics]

\* faulty variant: the length test rejects only hashes that are too long
get_start_block_too_long_only(start_block, c) ==
    IF ~start_block.some THEN Ok(BestHash(c))
    ELSE LET block == start_block.val IN
         IF StartsWith0x(block)
         THEN LET hash_bytes == HexDecode(SubSeq(block, 3, Len(block))) IN
              IF ~hash_bytes.ok THEN Err("resolution")
              ELSE IF Len(hash_bytes.val) > HashLen THEN Err("resolution")
              ELSE Ok(hash_bytes.val)
         ELSE LET block_num == ParseU64(block) IN
              IF ~block_num.ok THEN Err("resolution")
              ELSE LET hash == ClientHash(c, block_num.val) IN
                   IF ~hash.some THEN Err("resolution") ELSE Ok(hash.val)

(***************************************************************************)
(* Simulator::get_start_block                                              *)
(***************************************************************************)
get_start_block(start_block, c) ==
    IF ~start_block.some THEN Ok(BestHash(c))
    ELSE LET block == start_block.val IN
         IF StartsWith0x(block)
         THEN LET hash_bytes == HexDecode(SubSeq(block, 3, Len(block))) IN
              IF ~hash_bytes.ok THEN Err("resolution")
              ELSE IF Len(hash_bytes.val) # HashLen THEN Err("resolution")
              ELSE Ok(hash_bytes.val)
         ELSE LET block_num == ParseU64(block) IN
              IF ~block_num.ok THEN Err("resolution")
              ELSE LET hash == ClientHash(c, block_num.val) IN
                   IF ~hash.some THEN Err("resolution") ELSE Ok(hash.val)

\* faulty variant: with both flags set the block count silently wins
get_horizon_blocks_blocks_win(horizon_blocks, horizon_days, overflow_checks) ==
    IF horizon_blocks.some THEN Ok(horizon_blocks.val)
    ELSE IF horizon_days.some
         THEN LET p == MulAdd(horizon_days.val, BlocksPerDay, 0) IN
              IF p.carry # 0 /\ overflow_checks THEN Err("panic") ELSE Ok(p.lo)
    ELSE Err("config")

(***************************************************************************)
(* Simulator::get_horizon_blocks.  days * 7200 is a u64 multiplication: on *)
(* overflow a build with overflow checks panics and one without wraps.     *)
(***************************************************************************)
get_horizon_blocks(horizon_blocks, horizon_days, overflow_checks) ==
    IF horizon_blocks.some /\ ~horizon_days.some THEN Ok(horizon_blocks.val)
    ELSE IF ~horizon_blocks.some /\ horizon_days.some
         THEN LET p == MulAdd(horizon_days.val, BlocksPerDay, 0) IN
              IF p.carry # 0 /\ overflow_checks THEN Err("panic") ELSE Ok(p.lo)
    ELSE Err("config")

(***************************************************************************)
(* The output: file is the durable content of the destination, buf the     *)
(* BufWriter's buffer.  Content is a sequence of units tagged with the     *)
(* block number of the record they belong to; part 0 is the newline.       *)
(***************************************************************************)
LineBody(m) == [j \in 1..m.size |-> [bn |-> m.block_number, part |-> j]]
\* faulty variant: write! in place of writeln!, the record is not terminated
NewlineMissing(m) == <<>>
Newline(m) == <<[bn |-> m.block_number, part |-> 0]>>
\* a line left in the destination by an earlier run
OldLine == <<[bn |-> 0, part |-> 1], [bn |-> 0, part |-> 0]>>

Min(a, b) == IF a < b THEN a ELSE b

\* BufWriter::flush_buf; on an I/O fault only a proper prefix (at most cut
\* units) of the buffer was written before the error
FlushBuf(f, b, fault, cut) ==
    IF b = <<>> THEN [file |-> f, buf |-> b, ok |-> TRUE]
    ELSE IF fault
         THEN LET n == Min(cut, Len(b) - 1) IN
              [file |-> f \o SubSeq(b, 1, n),
               buf |-> SubSeq(b, n + 1, Len(b)), ok |-> FALSE]
         ELSE [file |-> f \o b, buf |-> <<>>, ok |-> TRUE]

\* BufWriter::write_all: flush when the data exceeds the spare capacity,
\* then write through when it is at least the capacity, else buffer it
WriteAll(f, b, data, fault, cut) ==
    LET flushed == IF Len(data) > BufCap - Len(b)
                   THEN FlushBuf(f, b, fault, cut)
                   ELSE [file |-> f, buf |-> b, ok |-> TRUE]
    IN  IF ~flushed.ok THEN flushed
        ELSE IF Len(data) >= BufCap
             THEN IF fault
                  THEN [file |-> flushed.file \o SubSeq(data, 1, Min(cut, Len(data) - 1)),
                        buf |-> flushed.buf, ok |-> FALSE]
                  ELSE [file |-> flushed.file \o data, buf |-> flushed.buf,
                        ok |-> TRUE]
             ELSE [file |-> flushed.file, buf |-> flushed.buf \o data, ok |-> TRUE]

\* BufWriter::flush: flush_buf, then the file's own flush (a no-op)
Flush(f, b, fault, cut) == FlushBuf(f, b, fault, cut)

\* faulty variant: the test is made on the counter before its increment
FlushDueBeforeIncrement(count, flush_every) == (count - 1) % flush_every = 0
\* if self.block_count % self.flush_every == 0, for flush_every # 0
FlushDue(count, flush_every) == count % flush_every = 0

\* faulty variant: the counter is incremented before the line is written
write_metrics_counts_first(f, b, count, flush_every, m, fault, cut) ==
    LET w1 == WriteAll(f, b, LineBody(m), fault = 1, cut)
        w2 == WriteAll(w1.file, w1.buf, Newline(m), fault = 2, cut)
        fl == Flush(w2.file, w2.buf, fault = 3, cut)
    IN  IF ~w1.ok
        THEN [file |-> w1.file, buf |-> w1.buf, block_count |-> count + 1,
              flushed |-> FALSE, res |-> "io"]
        ELSE IF ~w2.ok
        THEN [file |-> w2.file, buf |-> w2.buf, block_count |-> count + 1,
              flushed |-> FALSE, res |-> "io"]
        ELSE IF flush_every = 0
        THEN [file |-> w2.file, buf |-> w2.buf, block_count |-> count + 1,
              flushed |-> FALSE, res |-> "panic"]
        ELSE IF FlushDue(count + 1, flush_every)
        THEN [file |-> fl.file, buf |-> fl.buf, block_count |-> count + 1,
              flushed |-> TRUE, res |-> IF fl.ok THEN "ok" ELSE "io"]
        ELSE [file |-> w2.file, buf |-> w2.buf, block_count |-> count + 1,
              flushed |-> FALSE, res |-> "ok"]

(***************************************************************************)
(* Simulator::write_metrics: writeln! makes two write_all calls (the JSON  *)
(* text, the newline), the counter is incremented, and the sink is flushed *)
(* when the counter is a multiple of flush_every; the remainder by zero    *)
(* panics.  fault names the file operation that fails: 0 none, 1 the text, *)
(* 2 the newline, 3 the periodic flush.                                    *)
(***************************************************************************)
write_metrics(f, b, count, flush_every, m, fault, cut) ==
    LET w1 == WriteAll(f, b, LineBody(m), fault = 1, cut)
        w2 == WriteAll(w1.file, w1.buf, Newline(m), fault = 2, cut)
        fl == Flush(w2.file, w2.buf, fault = 3, cut)
    IN  IF ~w1.ok
        THEN [file |-> w1.file, buf |-> w1.buf, block_count |-> count,
              flushed |-> FALSE, res |-> "io"]
        ELSE IF ~w2.ok
        THEN [file |-> w2.file, buf |-> w2.buf, block_count |-> count,
              flushed |-> FALSE, res |-> "io"]
        ELSE IF flush_every = 0
        THEN [file |-> w2.file, buf |-> w2.buf, block_count |-> count + 1,
              flushed |-> FALSE, res |-> "panic"]
        ELSE IF FlushDue(count + 1, flush_every)
        THEN [file |-> fl.file, buf |-> fl.buf, block_count |-> count + 1,
              flushed |-> TRUE, res |-> IF fl.ok THEN "ok" ELSE "io"]
        ELSE [file |-> w2.file, buf |-> w2.buf, block_count |-> count + 1,
              flushed |-> FALSE, res |-> "ok"]

\* the file operation of write_metrics that fault names did fail
FaultTaken(r, fault) == (fault = 0) = (r.res # "io")

(***************************************************************************)
(* Command lines.                                                          *)
(***************************************************************************)
Chars(c1, c2, n) == [k \in 1..n |-> IF k % 2 = 1 THEN c1 ELSE c2]
Hex(c1, c2, n) == <<"0", "x">> \o Chars(c1, c2, n)

TipHex == Hex("0", "1", 64)
UnknownHex == Hex("a", "b", 64)
HexStartBlocks ==
    { TipHex, UnknownHex, Hex("A", "b", 64), Hex("0", "1", 62), Hex("0", "1", 66),
      Hex("0", "1", 65), Hex("0", "g", 64), <<"0", "x">> }
NumberStartBlocks ==
    { <<"+", "1">>, <<"7">>, <<>>, <<"1", "a">>, <<"0", "X", "0", "1">>,
      \* u64::MAX and u64::MAX + 1
      <<"1","8","4","4","6","7","4","4","0","7","3","7","0","9","5","5","1","6","1","5">>,
      <<"1","8","4","4","6","7","4","4","0","7","3","7","0","9","5","5","1","6","1","6">> }
StartBlocks == {None} \cup {Some(s) : s \in HexStartBlocks \cup NumberStartBlocks}

\* the largest day count whose product with 7200 fits 64 bits
MaxExactDays == <<24175, 15437, 6699, 9>>
HorizonBlocks == {None} \cup {Some(U64(n)) : n \in 0..MaxIter}
HorizonDays ==
    {None} \cup {Some(d) : d \in {U64(0), U64(1), MaxExactDays,
                                  MulAdd(MaxExactDays, 1, 1).lo}}

Clis ==
    [start_block : StartBlocks, horizon_blocks : HorizonBlocks,
     horizon_days : HorizonDays, feature_inherent_only : BOOLEAN,
     progress_every : 0..MaxProgressEvery, flush_every : 0..MaxEvery]

NoMetrics == [block_number |-> 0, size |-> 1]

(***************************************************************************)
(* State.                                                                  *)
(***************************************************************************)
VARIABLES
    cli,            \* the parsed command line
    pc,             \* where the process is
    chain,          \* the blocks the client has imported
    file,           \* durable content of the output destination
    buf,            \* Simulator.output_file: the BufWriter's buffer
    block_count,    \* Simulator.block_count
    current_hash,   \* run: current_hash (start_hash before the loop)
    horizon,        \* run: horizon_blocks
    i,              \* run: the loop index
    shutdown,       \* a ctrl-c has arrived and try_recv would return it
    block,          \* step_block: the block built by the step in progress
    metrics,        \* step_block: the metrics queried for that block
    err,            \* the kind of the error that ended the process
    exit_code,      \* the exit code, -1 while the process runs
    appended,       \* history: block and metrics of each line writeln! wrote
    flush_log,      \* history: the counts at which write_metrics called flush
    final_flushes,  \* history: calls of the final flush of run
    observed,       \* history: the index at which the signal was observed
    built,          \* history: the number of blocks built
    signal_in_step  \* history: the signal arrived inside a step_block call

vars == <<cli, pc, chain, file, buf, block_count, current_hash, horizon, i,
          shutdown, block, metrics, err, exit_code, appended, flush_log,
          final_flushes, observed, built, signal_in_step>>

sim == <<chain, block_count, current_hash, horizon, i, block, metrics>>
hist == <<appended, flush_log, final_flushes, observed, built, signal_in_step>>

Init ==
    /\ cli \in Clis
    /\ pc = "main"
    /\ chain = InitChain
    /\ file \in {<<>>, OldLine}
    /\ buf = <<>>
    /\ block_count = 0
    /\ current_hash = NoBlock.hash
    /\ horizon = U64(0)
    /\ i = 0
    /\ shutdown = FALSE
    /\ block = NoBlock
    /\ metrics = NoMetrics
    /\ err = "none"
    /\ exit_code = 0 - 1
    /\ appended = <<>>
    /\ flush_log = {}
    /\ final_flushes = 0
    /\ observed = 0 - 1
    /\ built = 0
    /\ signal_in_step = FALSE

(***************************************************************************)
(* How the process ends.                                                   *)
(***************************************************************************)
\* faulty variant: the error of run is logged and main still returns Ok(())
MainExitCodeAlwaysOk(kind) == 0
\* main: Ok(()) is exit code 0, every error is process::exit(1)
MainExitCode(kind) == IF kind = "none" THEN 0 ELSE 1

\* process exit through main; process::exit runs no destructor, so what
\* the BufWriter still buffers is not written
Exit(kind) ==
    /\ pc' = "exit"
    /\ err' = kind
    /\ exit_code' = MainExitCode(kind)

\* a panic: when it unwinds the Simulator is dropped and the BufWriter's
\* drop flushes the buffer, ignoring an error; when it aborts nothing runs
Panic(f, b) ==
    /\ pc' = "exit"
    /\ err' = "panic"
    /\ \/ \E fault \in BOOLEAN, cut \in 0..(BufCap - 1) :
            LET r == FlushBuf(f, b, fault, cut) IN
            /\ fault => ~r.ok
            /\ cut > 0 => ~r.ok
            /\ file' = r.file
            /\ buf' = r.buf
            /\ exit_code' = 101
       \/ /\ file' = f
          /\ buf' = b
          /\ exit_code' = 134

(***************************************************************************)
(* main: validation of the horizon flags.                                  *)
(***************************************************************************)
MainValidate ==
    /\ pc = "main"
    /\ IF cli.horizon_blocks.some = cli.horizon_days.some
       THEN Exit("config")
       ELSE pc' = "new" /\ UNCHANGED <<err, exit_code>>
    /\ UNCHANGED <<cli, file, buf, shutdown, sim, hist>>

(***************************************************************************)
(* Simulator::new: chain spec, configuration and client, then the output   *)
(* file opened for append (created if absent) behind an empty BufWriter.   *)
(***************************************************************************)
\* faulty variant: the destination is opened with truncate(true)
OpenTruncate(f) == <<>>
\* OpenOptions::new().create(true).append(true).open(..): the content stays
OpenAppend(f) == f

SimulatorNew ==
    /\ pc = "new"
    /\ \E outcome \in {"ok", "config", "io"} :
         IF outcome = "ok"
         THEN /\ pc' = "get_start_block"
              /\ file' = OpenAppend(file)
              /\ buf' = <<>>
              /\ block_count' = 0
              /\ UNCHANGED <<err, exit_code>>
         ELSE /\ Exit(outcome)
              /\ UNCHANGED <<file, buf, block_count>>
    /\ UNCHANGED <<cli, shutdown, chain, current_hash, horizon, i, block,
                   metrics, hist>>

(***************************************************************************)
(* Simulator::run, before the loop.                                        *)
(***************************************************************************)
RunStartBlock ==
    /\ pc = "get_start_block"
    /\ LET start_hash == get_start_block(cli.start_block, chain) IN
       IF start_hash.ok
       THEN /\ current_hash' = start_hash.val
            /\ pc' = "get_horizon_blocks"
            /\ UNCHANGED <<err, exit_code>>
       ELSE /\ Exit(start_hash.err)
            /\ UNCHANGED current_hash
    /\ UNCHANGED <<cli, file, buf, shutdown, chain, block_count, horizon, i,
                   block, metrics, hist>>

RunHorizon ==
    /\ pc = "get_horizon_blocks"
    /\ \E overflow_checks \in BOOLEAN :
         LET horizon_blocks == get_horizon_blocks(cli.horizon_blocks,
                                   cli.horizon_days, overflow_checks) IN
         IF horizon_blocks.ok
         THEN /\ horizon' = horizon_blocks.val
              /\ i' = 0
              /\ pc' = "loop"
              /\ UNCHANGED <<err, exit_code, file, buf>>
         ELSE IF horizon_blocks.err = "panic"
         THEN /\ Panic(file, buf)
              /\ UNCHANGED <<horizon, i>>
         ELSE /\ Exit(horizon_blocks.err)
              /\ UNCHANGED <<horizon, i, file, buf>>
    /\ UNCHANGED <<cli, shutdown, chain, block_count, current_hash, block,
                   metrics, hist>>

(***************************************************************************)
(* A ctrl-c arrives while the run listens for it.                          *)
(***************************************************************************)
Listening == pc \in {"loop", "header", "build", "import", "query", "write", "step_done"}

\* the positions inside a step_block call
StepPcs == {"header", "build", "import", "query", "write"}

Signal ==
    /\ Listening
    /\ ~shutdown
    /\ shutdown' = TRUE
    /\ signal_in_step' = (pc \in StepPcs)
    /\ UNCHANGED <<cli, pc, file, buf, err, exit_code, sim, appended, flush_log,
                   final_flushes, observed, built>>

\* faulty variant: the signal is logged but the loop is not left
LoopHeadNoBreak ==
    /\ pc = "loop"
    /\ IF ~LessThanU64(i, horizon)
       THEN pc' = "final_flush" /\ UNCHANGED observed
       ELSE /\ i < MaxIter
            /\ pc' = "header"
            /\ observed' = IF shutdown /\ observed < 0 THEN i ELSE observed
    /\ UNCHANGED <<cli, file, buf, shutdown, err, exit_code, sim, appended,
                   flush_log, final_flushes, built, signal_in_step>>

\* faulty variant: the range is 0..=horizon_blocks
LoopHeadInclusive ==
    /\ pc = "loop"
    /\ IF ~LessThanU64(i - 1, horizon)
       THEN pc' = "final_flush" /\ UNCHANGED observed
       ELSE IF shutdown
       THEN pc' = "final_flush" /\ observed' = i
       ELSE i < MaxIter /\ pc' = "header" /\ UNCHANGED observed
    /\ UNCHANGED <<cli, file, buf, shutdown, err, exit_code, sim, appended,
                   flush_log, final_flushes, built, signal_in_step>>

(***************************************************************************)
(* Simulator::run, the head of the loop: the range test, then try_recv.    *)
(***************************************************************************)
LoopHead ==
    /\ pc = "loop"
    /\ IF ~LessThanU64(i, horizon)
       THEN pc' = "final_flush" /\ UNCHANGED observed
       ELSE IF shutdown
       THEN pc' = "final_flush" /\ observed' = i
       ELSE i < MaxIter /\ pc' = "header" /\ UNCHANGED observed
    /\ UNCHANGED <<cli, file, buf, shutdown, err, exit_code, sim, appended,
                   flush_log, final_flushes, built, signal_in_step>>

(***************************************************************************)
(* Simulator::step_block.                                                  *)
(***************************************************************************)
StepHeader ==
    /\ pc = "header"
    /\ \E client_ok \in BOOLEAN :
         IF client_ok /\ ClientHeader(chain, current_hash).some
         THEN pc' = "build" /\ UNCHANGED <<err, exit_code>>
         ELSE Exit("build")
    /\ UNCHANGED <<cli, file, buf, shutdown, sim, hist>>

StepBuild ==
    /\ pc = "build"
    /\ \E build_ok \in BOOLEAN :
         IF build_ok
         THEN /\ block' = NewBlockAt(ClientHeader(chain, current_hash).val,
                                     built + 1, cli.feature_inherent_only)
              /\ built' = built + 1
              /\ pc' = "import"
              /\ UNCHANGED <<err, exit_code>>
         ELSE /\ Exit("build")
              /\ UNCHANGED <<block, built>>
    /\ UNCHANGED <<cli, file, buf, shutdown, chain, block_count, current_hash,
                   horizon, i, metrics, appended, flush_log, final_flushes,
                   observed, signal_in_step>>

\* faulty variant: a rejected import is logged and the loop goes on
StepImportSkips ==
    /\ pc = "import"
    /\ \E import_ok \in BOOLEAN :
         IF import_ok
         THEN /\ chain' = chain \cup {block}
              /\ pc' = "query"
         ELSE /\ pc' = "step_done"
              /\ UNCHANGED chain
    /\ UNCHANGED <<cli, file, buf, shutdown, block_count, current_hash, horizon,
                   i, block, metrics, hist, err, exit_code>>

\* faulty variant: the import is abandoned when a signal is pending
StepImportAbortsOnSignal ==
    /\ pc = "import"
    /\ \E import_ok \in BOOLEAN :
         IF shutdown
         THEN /\ import_ok
              /\ pc' = "final_flush"
              /\ UNCHANGED <<chain, err, exit_code>>
         ELSE IF import_ok
         THEN /\ chain' = chain \cup {block}
              /\ pc' = "query"
              /\ UNCHANGED <<err, exit_code>>
         ELSE /\ Exit("import")
              /\ UNCHANGED chain
    /\ UNCHANGED <<cli, file, buf, shutdown, block_count, current_hash, horizon,
                   i, block, metrics, hist>>

\* faulty variant: the import is started and its result is not awaited
StepImportNotAwaited ==
    /\ pc = "import"
    /\ \E import_ok \in BOOLEAN :
         IF import_ok
         THEN /\ pc' = "query"
              /\ UNCHANGED <<chain, err, exit_code>>
         ELSE /\ Exit("import")
              /\ UNCHANGED chain
    /\ UNCHANGED <<cli, file, buf, shutdown, block_count, current_hash, horizon,
                   i, block, metrics, hist>>

StepImport ==
    /\ pc = "import"
    /\ \E import_ok \in BOOLEAN :
         IF import_ok
         THEN /\ chain' = chain \cup {block}
              /\ pc' = "query"
              /\ UNCHANGED <<err, exit_code>>
         ELSE /\ Exit("import")
              /\ UNCHANGED chain
    /\ UNCHANGED <<cli, file, buf, shutdown, block_count, current_hash, horizon,
                   i, block, metrics, hist>>

StepQuery ==
    /\ pc = "query"
    /\ \E query_ok \in BOOLEAN, size \in {1, MaxBodyLen} :
         IF query_ok
         THEN /\ metrics' = [block_number |-> block.number, size |-> size]
              /\ pc' = "write"
              /\ UNCHANGED <<err, exit_code>>
         ELSE /\ size = 1
              /\ Exit("query")
              /\ UNCHANGED metrics
    /\ UNCHANGED <<cli, file, buf, shutdown, chain, block_count, current_hash,
                   horizon, i, block, hist>>

\* faulty variant: the loop keeps building on the parent it started with
NextParentStale(parent_hash, built_block) == parent_hash
\* run: current_hash = self.step_block(current_hash)?, on Ok(block hash)
NextParent(parent_hash, built_block) == built_block.hash

StepWrite ==
    /\ pc = "write"
    /\ \E fault \in 0..3, cut \in 0..(BufCap - 1) :
         LET r == write_metrics(file, buf, block_count, cli.flush_every, metrics,
                                fault, cut) IN
         /\ FaultTaken(r, fault)
         /\ fault = 0 => cut = 0
         /\ block_count' = r.block_count
         /\ appended' = IF r.block_count > block_count
                        THEN Append(appended, [block |-> block, metrics |-> metrics])
                        ELSE appended
         /\ flush_log' = IF r.flushed THEN flush_log \cup {r.block_count}
                         ELSE flush_log
         /\ IF r.res = "ok"
            THEN /\ pc' = "step_done"
                 /\ current_hash' = NextParent(current_hash, block)
                 /\ file' = r.file
                 /\ buf' = r.buf
                 /\ UNCHANGED <<err, exit_code>>
            ELSE IF r.res = "panic"
            THEN Panic(r.file, r.buf) /\ UNCHANGED current_hash
            ELSE /\ Exit("io")
                 /\ file' = r.file
                 /\ buf' = r.buf
                 /\ UNCHANGED current_hash
    /\ UNCHANGED <<cli, shutdown, chain, horizon, i, block, metrics,
                   final_flushes, observed, built, signal_in_step>>

(***************************************************************************)
(* Simulator::run, after a successful step: the progress check (its        *)
(* remainder by zero panics), then the next index.                         *)
(***************************************************************************)
StepDone ==
    /\ pc = "step_done"
    /\ IF cli.progress_every = 0
       THEN Panic(file, buf) /\ UNCHANGED i
       ELSE /\ i' = i + 1
            /\ pc' = "loop"
            /\ UNCHANGED <<err, exit_code, file, buf>>
    /\ UNCHANGED <<cli, shutdown, chain, block_count, current_hash, horizon,
                   block, metrics, hist>>

(***************************************************************************)
(* Simulator::run, after the loop: the final flush, then main returns.     *)
(***************************************************************************)
FinalFlush ==
    /\ pc = "final_flush"
    /\ final_flushes' = final_flushes + 1
    /\ \E fault \in BOOLEAN, cut \in 0..(BufCap - 1) :
         LET r == Flush(file, buf, fault, cut) IN
         /\ fault = ~r.ok
         /\ ~fault => cut = 0
         /\ file' = r.file
         /\ buf' = r.buf
         /\ Exit(IF r.ok THEN "none" ELSE "io")
    /\ UNCHANGED <<cli, shutdown, sim, appended, flush_log, observed, built,
                   signal_in_step>>

Next ==
    \/ MainValidate
    \/ SimulatorNew
    \/ RunStartBlock
    \/ RunHorizon
    \/ Signal
    \/ LoopHead
    \/ StepHeader
    \/ StepBuild
    \/ StepImport
    \/ StepQuery
    \/ StepWrite
    \/ StepDone
    \/ FinalFlush

Spec == Init /\ [][Next]_vars

(***************************************************************************)
(* Properties.                                                             *)
(***************************************************************************)
\* the units of f written by this run (an earlier run's units carry bn 0)
RunUnits(f) == SelectSeq(f, LAMBDA u : u.bn # 0)
\* the units of f that were in the destination before this run
OldUnits(f) == SelectSeq(f, LAMBDA u : u.bn = 0)

RECURSIVE Stream(_)
\* the lines of the given records, in order
Stream(recs) ==
    IF recs = <<>> THEN <<>>
    ELSE LineBody(Head(recs).metrics) \o Newline(Head(recs).metrics)
         \o Stream(Tail(recs))

\* the block_number of every complete line of f written by this run
LineNumbers(f) ==
    LET ends == SelectSeq(f, LAMBDA u : u.bn # 0 /\ u.part = 0)
    IN  [k \in 1..Len(ends) |-> ends[k].bn]

\* the start hash the run resolved
StartHash == get_start_block(cli.start_block, InitChain).val

\* the run was aborted by a failing step_block call
StepFailed == pc = "exit" /\ err \in {"build", "import", "query"}

\* C1: when a step fails, the destination holds exactly the records of the
\* steps that succeeded before it, and the process exits non-zero.
C1_FailedStepKeepsEarlierRecords ==
    StepFailed =>
        /\ exit_code # 0
        /\ RunUnits(file) = Stream(SubSeq(appended, 1, i))
        /\ Len(LineNumbers(file)) = i

\* C2: write_metrics flushes after every flush_every-th append, and a run
\* that ends (by success, by cancellation or by an error) has made exactly
\* one further flush.
C2_FlushEveryNthAndOnceAtEnd ==
    /\ cli.flush_every > 0 =>
          flush_log = {n \in 1..block_count : n % cli.flush_every = 0}
    /\ final_flushes <= 1
    /\ (pc = "exit" /\ err \in {"none", "resolution", "build", "import", "query"})
          => final_flushes = 1

\* C3 as stated: a cancellation observed after i iterations yields exactly
\* i records, all flushed to the output, and exit code 0, and no step is
\* started after it.
C3_CancelledRunExitsZero ==
    observed >= 0 =>
        /\ Len(appended) = observed
        /\ built = observed
        /\ pc \in {"final_flush", "exit"}
        /\ pc = "exit" =>
              /\ exit_code = 0
              /\ RunUnits(file) = Stream(appended)

\* C3 as amended: a cancellation observed after i iterations yields exactly
\* i records and no step is started after it; when the final flush succeeds
\* all i records are in the output and the exit code is 0, and when the
\* final flush fails the process exits with code 1.
C3_CancelledRunStopsAtBoundary ==
    observed >= 0 =>
        /\ Len(appended) = observed
        /\ block_count = observed
        /\ i = observed
        /\ built = observed
        /\ pc \in {"final_flush", "exit"}
        /\ pc = "exit" =>
              IF err = "none"
              THEN /\ exit_code = 0
                   /\ RunUnits(file) = Stream(appended)
                   /\ LineNumbers(file) = [k \in 1..observed |->
                                             appended[k].block.number]
              ELSE err = "io" /\ exit_code = 1

C3_Witness ==
    /\ observed >= 2
    /\ LessThanU64(observed, horizon)
    /\ pc = "exit"
    /\ exit_code = 0
    /\ Len(LineNumbers(file)) = observed

\* C4: after N successful steps the sink (file and buffer) holds exactly N
\* lines of this run, the k-th being the line of the k-th block produced,
\* with strictly increasing block numbers; after a successful run all of
\* them are in the file.
C4_OneLinePerBlockIncreasing ==
    (pc \in {"loop", "final_flush"} \/ (pc = "exit" /\ err = "none")) =>
        /\ Len(appended) = i
        /\ RunUnits(file \o buf) = Stream(appended)
        /\ Len(LineNumbers(file \o buf)) = i
        /\ \A k \in 1..i :
              /\ appended[k].block.hash = NewHash(k)
              /\ appended[k].block \in chain
              /\ LineNumbers(file \o buf)[k] = appended[k].block.number
        /\ \A k \in 1..(i - 1) :
              LineNumbers(file \o buf)[k] < LineNumbers(file \o buf)[k + 1]
        /\ pc = "exit" => Len(LineNumbers(file)) = i /\ buf = <<>>

C4_Witness ==
    /\ pc = "exit"
    /\ err = "none"
    /\ i = MaxIter
    /\ Len(LineNumbers(file)) = MaxIter
    /\ OldUnits(file) # <<>>

\* C5: each emitted block was built on the block emitted before it (the
\* first on the start hash), and while the run is live its current parent
\* hash is the hash of the last emitted block, or the start hash when none
\* was emitted.
C5_ChainContinuity ==
    /\ \A k \in 1..Len(appended) :
          appended[k].block.parent =
             IF k = 1 THEN StartHash ELSE appended[k - 1].block.hash
    /\ (Listening \/ pc = "final_flush") =>
          current_hash = IF appended = <<>> THEN StartHash
                         ELSE appended[Len(appended)].block.hash

C5_Witness ==
    /\ pc = "loop"
    /\ Len(appended) = MaxIter
    /\ appended[MaxIter].block.parent = appended[MaxIter - 1].block.hash

\* only --horizon-days is set
OnlyDays == cli.horizon_days.some /\ ~cli.horizon_blocks.some

\* C6: with only the day count set, the resolved horizon is the exact
\* product days * 7200 for every u64 day count: it does not wrap and the
\* process does not crash.
C6_DaysHorizonIsExactProduct ==
    OnlyDays =>
        LET p == MulAdd(cli.horizon_days.val, BlocksPerDay, 0) IN
        /\ ~(pc = "exit" /\ err = "panic" /\ built = 0)
        /\ (Listening \/ pc = "final_flush") => p.carry = 0 /\ horizon = p.lo

\* C7: with both horizon flags set, or neither, get_horizon_blocks is a
\* configuration error and the process exits with code 1 from main: no
\* block is built or imported and nothing is written.
C7_AmbiguousOrMissingHorizonIsConfigError ==
    (cli.horizon_blocks.some = cli.horizon_days.some) =>
        /\ \A oc \in BOOLEAN :
              get_horizon_blocks(cli.horizon_blocks, cli.horizon_days, oc)
                 = Err("config")
        /\ pc \in {"main", "exit"}
        /\ built = 0
        /\ chain = InitChain
        /\ block_count = 0
        /\ appended = <<>>
        /\ RunUnits(file \o buf) = <<>>
        /\ pc = "exit" => err = "config" /\ exit_code = 1

C7_Witness ==
    /\ cli.horizon_blocks.some
    /\ cli.horizon_days.some
    /\ pc = "exit"
    /\ exit_code = 1
    /\ OldUnits(file) # <<>>

\* the start block is "0x" followed by hex digits that decode
HexStart ==
    /\ cli.start_block.some
    /\ StartsWith0x(cli.start_block.val)
    /\ HexDecode(SubSeq(cli.start_block.val, 3, Len(cli.start_block.val))).ok

\* the run is past get_start_block and no step has replaced the start hash
AtStartHash ==
    \/ pc = "get_horizon_blocks"
    \/ (Listening \/ pc = "final_flush") /\ pc # "step_done" /\ i = 0

\* C8: a hex start block of exactly 32 bytes resolves to exactly those
\* bytes; one of any other decoded length is a resolution error, and the
\* run goes no further: no block is produced.
C8_HexStartBlockResolvesExactly ==
    HexStart =>
        LET s == cli.start_block.val IN
        IF Len(s) - 2 = 2 * HashLen
        THEN /\ AtStartHash =>
                   /\ Len(current_hash) = HashLen
                   /\ \A k \in 1..HashLen :
                         current_hash[k] =
                            16 * HexVal(s[2 * k + 1]) + HexVal(s[2 * k + 2])
             /\ (AtStartHash /\ s = TipHex) => current_hash = TipBlock.hash
             /\ pc = "exit" => err # "resolution"
        ELSE /\ get_start_block(cli.start_block, chain) = Err("resolution")
             /\ pc \in {"main", "new", "get_start_block", "exit"}
             /\ built = 0
             /\ chain = InitChain
             /\ pc = "exit" =>
                   err \in {"config", "io", "resolution"} /\ exit_code = 1

C8_Witness ==
    /\ cli.start_block = Some(TipHex)
    /\ pc = "step_done"
    /\ i = 0
    /\ appended[1].block.parent = TipBlock.hash

\* the start block names a hash or a height the client does not know
UnknownStart ==
    /\ cli.start_block.some
    /\ LET s == cli.start_block.val IN
       IF StartsWith0x(s)
       THEN LET d == HexDecode(SubSeq(s, 3, Len(s))) IN
            d.ok /\ Len(d.val) = HashLen /\ \A b \in InitChain : b.hash # d.val
       ELSE LET n == ParseU64(s) IN
            n.ok /\ ~ClientHash(InitChain, n.val).some

\* C9: a start block naming an unknown height or hash makes the run fail
\* with a resolution error before the loop: no shutdown check or step is
\* reached, for every horizon, and the exit code is not 0.
C9_UnknownStartFailsBeforeLoop ==
    UnknownStart =>
        /\ pc \in {"main", "new", "get_start_block", "exit"}
        /\ built = 0
        /\ pc = "exit" =>
              err \in {"config", "io", "resolution"} /\ exit_code # 0

\* C10: the exit code is 0 exactly when the run made its final flush with
\* success, after the whole horizon or after an observed cancellation; it
\* is 1 on every configuration, resolution, build, import, query and I/O
\* error, a failed periodic or final flush included.
C10_ExitCodes ==
    pc = "exit" =>
        /\ (exit_code = 0) = (final_flushes = 1 /\ buf = <<>>)
        /\ exit_code = 0 =>
              /\ err = "none"
              /\ observed >= 0 \/ ~LessThanU64(i, horizon)
              /\ Len(appended) = i
        /\ (exit_code = 1) =
              (err \in {"config", "resolution", "build", "import", "query", "io"})
        /\ (final_flushes = 1 /\ buf # <<>>) => err = "io" /\ exit_code = 1
        /\ (block_count \in flush_log /\ buf # <<>> /\ final_flushes = 0)
              => err = "io" /\ exit_code = 1

C10_Witness ==
    /\ pc = "exit"
    /\ final_flushes = 1
    /\ buf # <<>>
    /\ exit_code = 1
    /\ LessThanU64(i, horizon)

\* the number of blocks the run imported
Imported == Cardinality(chain \ InitChain)

\* the run left the loop because the range 0..horizon_blocks was exhausted
HorizonReached ==
    (pc = "final_flush" \/ (pc = "exit" /\ final_flushes = 1)) /\ observed < 0

\* C11: with a resolved horizon of N (7200 for one day), no error and no
\* cancellation, the loop makes exactly N step iterations: the index never
\* passes N, the loop is left at N with N blocks built, N lines appended
\* and block_count (the reported total) N, and after the final flush
\* the N records are in the destination.
C11_HorizonRunMakesNSteps ==
    /\ (OnlyDays /\ cli.horizon_days.val = U64(1) /\ Listening)
           => horizon = U64(BlocksPerDay)
    /\ (Listening \/ pc = "final_flush") =>
           LessThanU64(i, horizon) \/ horizon = U64(i)
    /\ HorizonReached =>
           /\ horizon = U64(i)
           /\ built = i
           /\ Imported = i
           /\ block_count = i
           /\ Len(appended) = i
           /\ Len(LineNumbers(file \o buf)) = i
    /\ (HorizonReached /\ pc = "exit" /\ err = "none") =>
           /\ exit_code = 0
           /\ RunUnits(file) = Stream(appended)
           /\ Len(LineNumbers(file)) = i

C11_Witness ==
    /\ HorizonReached
    /\ pc = "exit"
    /\ err = "none"
    /\ horizon = U64(MaxIter)
    /\ block_count = MaxIter
    /\ Len(LineNumbers(file)) = MaxIter

\* no start block was given on the command line
StartOmitted == ~cli.start_block.some

\* C12: with the start block omitted, the parent of the first step is the
\* best hash the client reports at the start of the run: it is the loop's
\* parent until the first step succeeds, and the first block built has it
\* as its parent.
C12_OmittedStartIsBestHash ==
    StartOmitted =>
        /\ \A b \in InitChain : b.number <= TipBlock.number
        /\ AtStartHash => current_hash = TipBlock.hash
        /\ (i = 0 /\ built = 1) => block.parent = TipBlock.hash
        /\ appended # <<>> => appended[1].block.parent = TipBlock.hash

C12_Witness ==
    /\ StartOmitted
    /\ pc = "query"
    /\ i = 0
    /\ block.parent = TipBlock.hash
    /\ block \in chain

\* a is a prefix of b
IsPrefix(a, b) == Len(a) <= Len(b) /\ SubSeq(b, 1, Len(a)) = a

\* C13: the durable output is append-only: every step of the process,
\* the failing ones and the exits included, leaves the destination with
\* its former content as a prefix, so that neither a line of an earlier
\* run nor a flushed record is removed or altered.
C13_DurableOutputAppendOnly == [][IsPrefix(file, file')]_vars

C13_Witness ==
    /\ StepFailed
    /\ IsPrefix(OldLine, file)
    /\ Len(LineNumbers(file)) = 1
    /\ buf # <<>>

\* C14: a failed step aborts the run at once: the failing transition
\* comes from inside the step and changes neither the output nor the
\* counter, no line exists for the failing block, nothing happens after
\* the exit, and the loop comes back to its head only with one block
\* built, imported and appended per completed iteration (no retry, no
\* skip).
C14_FailedStepAbortsRun ==
    [][ /\ pc # "exit"
        /\ StepFailed' =>
              /\ pc \in {"header", "build", "import", "query"}
              /\ i' = i
              /\ <<file', buf', block_count', appended'>>
                   = <<file, buf, block_count, appended>>
              /\ block_count' = i
              /\ Len(appended') = i
              /\ Len(LineNumbers(file' \o buf')) = i
              /\ built' \in {i, i + 1}
              /\ Imported' \in {i, i + 1}
        /\ pc' = "loop" =>
              /\ built' = i'
              /\ Imported' = i'
              /\ Len(appended') = i' ]_vars

C14_Witness ==
    /\ StepFailed
    /\ err = "query"
    /\ i = 1
    /\ built = 2
    /\ Imported = 2
    /\ Len(appended) = 1

\* C15: the build of a block follows the successful import of its
\* predecessor: every block built before the latest one is in the chain,
\* the latest one has the previous one as its parent, and at most one
\* block is built and not imported, only while its import is in progress
\* or was rejected.
C15_BuildFollowsImportOfPredecessor ==
    /\ built - Imported \in {0, 1}
    /\ built - Imported = 1 => pc = "import" \/ (pc = "exit" /\ err = "import")
    /\ \A k \in 1..(built - 1) : \E b \in chain : b.hash = NewHash(k)
    /\ pc = "import" =>
           /\ block \notin chain
           /\ \E b \in chain : b.hash = block.parent
           /\ built >= 2 => block.parent = NewHash(built - 1)

C15_Witness ==
    /\ pc = "import"
    /\ built = 2
    /\ block.parent = NewHash(1)
    /\ \E b \in chain : b.hash = NewHash(1)

\* C16 as stated: a cancelled run, the signal having arrived inside a step
\* or not, had that step completed and ends after one final flush without
\* an error.
C16_CancelledRunStopsWithoutError ==
    (pc = "exit" /\ observed >= 0) =>
        /\ signal_in_step => observed >= 1 /\ Len(appended) = observed
        /\ final_flushes = 1
        /\ err = "none"
        /\ exit_code = 0

\* C16: cancellation is cooperative.  The signal is observed only by the
\* test at the head of the loop; a step in progress is never left for the
\* final flush, it goes on to its end or fails by an error of its own; a
\* signal that arrived inside a step is observed at a later index, with
\* that step's block built, imported and appended; a pending signal is
\* honored at the next loop head with work left, then comes exactly one
\* final flush, and the process exits with code 0 when that flush succeeds
\* and with code 1 and an I/O error when it fails.
C16_CancellationIsCooperative ==
    [][ /\ observed' # observed =>
              /\ pc = "loop"
              /\ shutdown
              /\ observed' = i
              /\ pc' = "final_flush"
        /\ pc \in StepPcs =>
              /\ pc' \in StepPcs \cup {"step_done", "exit"}
              /\ pc' = "exit" => err' \in {"build", "import", "query", "io", "panic"}
        /\ (signal_in_step' /\ observed' >= 0) =>
              /\ observed' >= 1
              /\ built' = observed'
              /\ Imported' = observed'
              /\ Len(appended') = observed'
              /\ Len(LineNumbers(file' \o buf')) = observed'
        /\ (pc = "loop" /\ shutdown /\ LessThanU64(i, horizon)) =>
              /\ pc' = "final_flush"
              /\ observed' = i
        /\ (pc = "final_flush" /\ observed >= 0) =>
              /\ final_flushes' = 1
              /\ pc' = "exit"
              /\ err' \in {"none", "io"}
              /\ err' = "none" => exit_code' = 0 /\ buf' = <<>>
              /\ err' = "io" => exit_code' = 1 /\ buf' # <<>> ]_vars

C16_Witness ==
    /\ signal_in_step
    /\ observed = 2
    /\ pc = "exit"
    /\ err = "none"
    /\ exit_code = 0
    /\ Len(LineNumbers(file)) = 2

\* C17: every block the run built, imported or not, holds inherent
\* extrinsics only, whatever the value of feature_inherent_only.
C17_OnlyInherentExtrinsics ==
    \A b \in (chain \ InitChain) \cup (IF built >= 1 THEN {block} ELSE {}) :
        /\ b.extrinsics = InherentExtrinsics
        /\ \A k \in 1..Len(b.extrinsics) :
              /\ b.extrinsics[k].kind = "inherent"
              /\ b.extrinsics[k] \notin {PoolExtrinsics[j] : j \in 1..Len(PoolExtrinsics)}

C17_Witness ==
    /\ ~cli.feature_inherent_only
    /\ pc = "query"
    /\ block \in chain
    /\ block.extrinsics # <<>>

\* C18: for every flush_every and progress_every, zero included, no step
\* crashes the process: it never ends by a panic after a block was built.
C18_NoCrashForAnyInterval ==
    ~(pc = "exit" /\ err = "panic" /\ built >= 1)

\* the largest element of a non-empty set of numbers
MaxOf(S) == CHOOSE x \in S : \A y \in S : y <= x

\* the count at the last explicit flush write_metrics made, 0 if none
LastFlushCount == MaxOf(flush_log \cup {0})

\* C19: at every iteration boundary of a run with flush_every >= 1 the
\* number of records appended since the last explicit flush is
\* block_count mod flush_every, less than flush_every; no more lines
\* than that are in the buffer and the lines up to the last explicit
\* flush are in the file.
C19_UnflushedRecordsBelowFlushEvery ==
    (cli.flush_every >= 1 /\ pc \in {"loop", "final_flush"}) =>
        LET since == block_count - LastFlushCount IN
        /\ since = block_count % cli.flush_every
        /\ since < cli.flush_every
        /\ Len(LineNumbers(buf)) <= since
        /\ Len(LineNumbers(file)) >= LastFlushCount

C19_Witness ==
    /\ pc = "loop"
    /\ cli.flush_every = MaxEvery
    /\ block_count = MaxEvery - 1
    /\ flush_log = {}
    /\ Len(LineNumbers(buf)) = MaxEvery - 1

\* C20: block_count is the number of lines the run appended; the
\* number of blocks it imported is that or one more, and it is one more
\* exactly while a step is between its import and its append, or after
\* the run ended on a failed query or a failed write for the imported
\* block.
C20_CounterMatchesAppendsAndImports ==
    /\ block_count = Len(LineNumbers(file \o buf))
    /\ block_count = Len(appended)
    /\ Imported - block_count \in {0, 1}
    /\ Imported - block_count = 1 =>
           \/ pc \in {"query", "write"}
           \/ pc = "exit" /\ err \in {"query", "io"}
    /\ pc \in {"query", "write"} => Imported - block_count = 1

C20_Witness ==
    /\ pc = "exit"
    /\ err = "io"
    /\ Imported = 2
    /\ block_count = 1
    /\ final_flushes = 0

====
